---- MODULE Spec2Model ----
(***************************************************************************)
(* A model of facsimile's duplicate (src/src/facsimile.js): the dispatch   *)
(* table _duplicate, the per-type strategies, and the recursion of the     *)
(* composite strategies, run step by step on an explicit call stack over   *)
(* a heap of JavaScript objects with identities.                           *)
(***************************************************************************)
EXTENDS Integers, Sequences, FiniteSets, TLC

VARIABLES
    heap,     \* the objects: heap[a] is the object whose identity is a
    input,    \* the value the caller passes to its first duplicate call
    stack,    \* the active strategy invocations, innermost last
    results,  \* the outcome of every finished duplicate call, oldest first
    writes,   \* how many writes the caller made to containers of the copy
    before,   \* history: the heap and the writes when duplicate was last called
    shape     \* history: what the input was built from when the caller made it

vars == <<heap, input, stack, results, writes, before, shape>>

----------------------------------------------------------------------------
(* Bounds of the model *)

\* frames the engine's call stack holds before it raises RangeError
StackLimit == 3
\* duplicate calls the caller makes
MaxCalls == 2
\* writes the caller makes to the copy afterwards
MaxWrites == 1

----------------------------------------------------------------------------
(* Values and objects *)

Val(tag, n) == [tag |-> tag, n |-> n]
Ref(a) == [tag |-> "REF", n |-> a]
IsRef(v) == v.tag = "REF"

Undefined == Val("UNDEFINED", 0)
Num(n) == Val("NUMBER", n)

\* the tags the identity strategy is registered for
IdentityTags ==
    {"STRING", "NUMBER", "BOOLEAN", "NULL", "UNDEFINED", "SYMBOL",
     "MATH", "JSON", "GENERATOR", "WASM"}

FunctionTags == {"FUNCTION", "GENERATORFUNC", "ASYNCFUNC"}

TypedArrayTags ==
    {"INT8ARRAY", "UINT8ARRAY", "UINT8CLAMPEDARRAY", "INT16ARRAY",
     "UINT16ARRAY", "INT32ARRAY", "UINT32ARRAY", "FLOAT32ARRAY",
     "FLOAT64ARRAY"}

\* tupos' typeOf: the tag of a value; an object's tag is that of its class
typeOf(h, v) == IF IsRef(v) THEN h[v.n].type ELSE v.tag

\* the canonical numeric strings "0", "1", ... that are array indices
IndexKeys == <<"0", "1", "2">>
IsIndex(k) == \E i \in 1..Len(IndexKeys) : IndexKeys[i] = k
KeyNum(k) == (CHOOSE i \in 1..Len(IndexKeys) : IndexKeys[i] = k) - 1
ToKey(i) == IndexKeys[i + 1]

Range(s) == {s[i] : i \in 1..Len(s)}
SeqKeys(props) == [i \in 1..Len(props) |-> props[i].key]
HasKey(props, k) == \E i \in 1..Len(props) : props[i].key = k
PropVal(props, k) == props[CHOOSE i \in 1..Len(props) : props[i].key = k].val
Prop(k, v) == [key |-> k, val |-> v]

\* the classes whose instances carry enumerable own properties in the model
PropTypes == {"OBJECT", "ARRAY", "ERROR"} \cup TypedArrayTags
HasProps(c) == c.type \in PropTypes
Proto(c) == IF c.type = "OBJECT" THEN c.proto ELSE 0

RECURSIVE SortedIndexKeys(_, _)
\* the index keys among ks, ascending by numeric value, from index i on
SortedIndexKeys(ks, i) ==
    IF i > Len(IndexKeys) THEN <<>>
    ELSE (IF IndexKeys[i] \in ks THEN <<IndexKeys[i]>> ELSE <<>>)
         \o SortedIndexKeys(ks, i + 1)

\* OrdinaryOwnPropertyKeys: integer indices ascending, then the other keys
\* in the order they were created
OwnKeys(c) ==
    LET ks == SeqKeys(c.props)
    IN  SortedIndexKeys(Range(ks), 1) \o SelectSeq(ks, LAMBDA k : ~IsIndex(k))

RECURSIVE ForInKeys(_, _)
\* for (const key in obj): the own enumerable keys, then those of the
\* prototype chain that no nearer object has
ForInKeys(h, a) ==
    LET own == OwnKeys(h[a])
        up  == IF Proto(h[a]) = 0 THEN <<>> ELSE ForInKeys(h, Proto(h[a]))
    IN  own \o SelectSeq(up, LAMBDA k : k \notin Range(own))

RECURSIVE Get(_, _, _)
\* obj[key]: the own property, else the prototype chain's, else undefined
Get(h, a, k) ==
    IF HasKey(h[a].props, k) THEN PropVal(h[a].props, k)
    ELSE IF Proto(h[a]) = 0 THEN Undefined
    ELSE Get(h, Proto(h[a]), k)

\* props with key k set to v: in place when present, appended when new
PutProp(props, k, v) ==
    IF HasKey(props, k)
    THEN [i \in 1..Len(props) |->
            IF props[i].key = k THEN Prop(k, v) ELSE props[i]]
    ELSE Append(props, Prop(k, v))

\* for the unsigned 8-bit element kinds: the value modulo 2^8
ToElement(tag, v) ==
    IF tag \in {"UINT8ARRAY"} /\ v.tag = "NUMBER" THEN Num(v.n % 256)
    ELSE v

\* target[key] = v, by the class of the target
Assign(c, k, v) ==
    CASE c.type = "ARRAY" ->
            [c EXCEPT !.props = PutProp(@, k, v),
                      !.length = IF IsIndex(k) /\ KeyNum(k) >= @
                                 THEN KeyNum(k) + 1 ELSE @]
      [] c.type \in TypedArrayTags ->
            IF IsIndex(k)
            THEN IF KeyNum(k) < c.length
                 THEN [c EXCEPT !.props = PutProp(@, k, ToElement(c.type, v))]
                 ELSE c
            ELSE [c EXCEPT !.props = PutProp(@, k, v)]
      [] OTHER -> [c EXCEPT !.props = PutProp(@, k, v)]

\* every identity an object holds a reference to
Links(c) ==
    (IF HasProps(c)
     THEN {c.props[i].val.n : i \in {j \in 1..Len(c.props) : IsRef(c.props[j].val)}}
     ELSE {})
    \cup (IF Proto(c) # 0 THEN {c.proto} ELSE {})
    \cup (IF c.type \in {"MAP", "SET", "WEAKMAP", "WEAKSET"}
          THEN {c.entries[i][1].n : i \in {j \in 1..Len(c.entries) : IsRef(c.entries[j][1])}}
               \cup {c.entries[i][2].n : i \in {j \in 1..Len(c.entries) : IsRef(c.entries[j][2])}}
          ELSE {})
    \cup (IF c.type = "DATAVIEW" THEN {c.buffer} ELSE {})
    \cup (IF c.type = "PROMISE" /\ c.link # 0 THEN {c.link} ELSE {})

RECURSIVE ReachFrom(_, _)
ReachFrom(h, S) ==
    LET T == S \cup UNION {Links(h[a]) : a \in S}
    IN  IF T = S THEN S ELSE ReachFrom(h, T)

\* the identities reachable from a value
Reach(h, v) == IF IsRef(v) THEN ReachFrom(h, {v.n}) ELSE {}

----------------------------------------------------------------------------
(* The strategies.  A strategy's outcome is the heap it leaves, the value  *)
(* it returns and the error it throws ("none" when it returns).            *)

Returned(h, v) == [heap |-> h, val |-> v, err |-> "none"]
Threw(h, e) == [heap |-> h, val |-> Undefined, err |-> e]
\* a new object: its identity is the next free one
New(h, c) == Returned(Append(h, c), Ref(Len(h) + 1))

\* identity with its body in braces, item => { item }: returns undefined
identityBlock(h, item) == Returned(h, Undefined)

identity(h, item) == Returned(h, item)

\* Function("return " + func)(): the source text is parsed as an expression
\* in the global scope; a method shorthand or a native function's text is
\* no expression
duplicateFunction(h, func) ==
    LET f == h[func.n]
    IN  IF f.source = "expression"
        THEN New(h, [type |-> f.type, source |-> f.source, scope |-> 0])
        ELSE Threw(h, "SyntaxError")

\* duplicateError with the assignment reversed, err.name = newErr.name
duplicateErrorReversed(h, err) ==
    LET e == h[err.n]
    IN  New([h EXCEPT ![err.n].name = "Error"],
            [type |-> "ERROR", message |-> e.message, name |-> "Error",
             props |-> <<>>])

duplicateError(h, err) ==
    LET e == h[err.n]
    IN  New(h, [type |-> "ERROR", message |-> e.message, name |-> e.name,
                props |-> <<>>])

duplicateRegExp(h, regex) ==
    LET r == h[regex.n]
    IN  New(h, [type |-> "REGEXP", source |-> r.source, flags |-> r.flags,
                lastIndex |-> 0])

duplicateDate(h, dt) == New(h, [type |-> "DATE", time |-> h[dt.n].time])

\* new constructor(iterable): the entries the iterable yields; a WeakMap or
\* a WeakSet is not iterable
Iterable(c) == c.type \in {"MAP", "SET"}

\* duplicateMapType returning the map it was given
duplicateMapTypeAlias(constructor, h, map) == Returned(h, map)

duplicateMapType(constructor, h, map) ==
    IF Iterable(h[map.n])
    THEN New(h, [type |-> constructor, entries |-> h[map.n].entries])
    ELSE Threw(h, "TypeError: not iterable")

duplicateSetType(constructor, h, set) ==
    IF Iterable(h[set.n])
    THEN New(h, [type |-> constructor, entries |-> h[set.n].entries])
    ELSE Threw(h, "TypeError: not iterable")

duplicatePromise(h, promise) ==
    New(h, [type |-> "PROMISE", link |-> promise.n])

\* obj.length of an object of the model: undefined where the class has none
GetLength(c) == IF "length" \in DOMAIN c THEN Num(c.length) ELSE Undefined
\* ToIndex: undefined converts to 0
ToIndex(v) == IF v.tag = "NUMBER" THEN v.n ELSE 0

duplicateArrayBuffer(h, arrBuff) ==
    New(h, [type |-> "ARRAYBUFFER",
            byteLength |-> ToIndex(GetLength(h[arrBuff.n]))])

duplicateDataView(h, dv) ==
    LET d == h[dv.n]
    IN  New(h, [type |-> "DATAVIEW", buffer |-> d.buffer,
                byteOffset |-> d.byteOffset, byteLength |-> d.byteLength])

\* const retObj = {}
NewObject == [type |-> "OBJECT", props |-> <<>>, proto |-> 0]
\* const retArr = []
NewArray == [type |-> "ARRAY", props |-> <<>>, length |-> 0]
\* new constructor(typedArr.length + 1)
NewTypedArrayOffByOne(constructor, n) ==
    [type |-> constructor, length |-> n + 1,
     props |-> [i \in 1..(n + 1) |-> Prop(ToKey(i - 1), Num(0))]]

\* new constructor(typedArr.length): length elements, all 0
NewTypedArray(constructor, n) ==
    [type |-> constructor, length |-> n,
     props |-> [i \in 1..n |-> Prop(ToKey(i - 1), Num(0))]]

Strategy(fn, constructor) == [fn |-> fn, constructor |-> constructor]

\* the dispatch table
_duplicate ==
    "STRING" :> Strategy("identity", "")
    @@ "NUMBER" :> Strategy("identity", "")
    @@ "BOOLEAN" :> Strategy("identity", "")
    @@ "NULL" :> Strategy("identity", "")
    @@ "UNDEFINED" :> Strategy("identity", "")
    @@ "SYMBOL" :> Strategy("identity", "")
    @@ "FUNCTION" :> Strategy("duplicateFunction", "")
    @@ "ERROR" :> Strategy("duplicateError", "")
    @@ "REGEXP" :> Strategy("duplicateRegExp", "")
    @@ "DATE" :> Strategy("duplicateDate", "")
    @@ "OBJECT" :> Strategy("duplicateObject", "")
    @@ "ARRAY" :> Strategy("duplicateArray", "")
    @@ "MAP" :> Strategy("duplicateMapType", "MAP")
    @@ "WEAKMAP" :> Strategy("duplicateMapType", "WEAKMAP")
    @@ "SET" :> Strategy("duplicateSetType", "SET")
    @@ "WEAKSET" :> Strategy("duplicateSetType", "WEAKSET")
    @@ "MATH" :> Strategy("identity", "")
    @@ "PROMISE" :> Strategy("duplicatePromise", "")
    @@ "INT8ARRAY" :> Strategy("duplicateTypedArray", "INT8ARRAY")
    @@ "UINT8ARRAY" :> Strategy("duplicateTypedArray", "UINT8ARRAY")
    @@ "UINT8CLAMPEDARRAY" :> Strategy("duplicateTypedArray", "UINT8CLAMPEDARRAY")
    @@ "INT16ARRAY" :> Strategy("duplicateTypedArray", "INT16ARRAY")
    @@ "UINT16ARRAY" :> Strategy("duplicateTypedArray", "UINT16ARRAY")
    @@ "INT32ARRAY" :> Strategy("duplicateTypedArray", "INT32ARRAY")
    @@ "UINT32ARRAY" :> Strategy("duplicateTypedArray", "UINT32ARRAY")
    @@ "FLOAT32ARRAY" :> Strategy("duplicateTypedArray", "FLOAT32ARRAY")
    @@ "FLOAT64ARRAY" :> Strategy("duplicateTypedArray", "FLOAT64ARRAY")
    @@ "ARRAYBUFFER" :> Strategy("duplicateArrayBuffer", "")
    @@ "DATAVIEW" :> Strategy("duplicateDataView", "")
    @@ "JSON" :> Strategy("identity", "")
    @@ "GENERATOR" :> Strategy("identity", "")
    @@ "GENERATORFUNC" :> Strategy("duplicateFunction", "")
    @@ "WASM" :> Strategy("identity", "")
    @@ "ASYNCFUNC" :> Strategy("duplicateFunction", "")

\* the strategies that loop over the keys of their argument and recurse
Composite == {"duplicateObject", "duplicateArray", "duplicateTypedArray"}

\* the body of a strategy that does not recurse, run to its end
RunLeaf(h, f) ==
    CASE f.fn = "identity" -> identity(h, f.arg)
      [] f.fn = "duplicateFunction" -> duplicateFunction(h, f.arg)
      [] f.fn = "duplicateError" -> duplicateError(h, f.arg)
      [] f.fn = "duplicateRegExp" -> duplicateRegExp(h, f.arg)
      [] f.fn = "duplicateDate" -> duplicateDate(h, f.arg)
      [] f.fn = "duplicateMapType" -> duplicateMapType(f.constructor, h, f.arg)
      [] f.fn = "duplicateSetType" -> duplicateSetType(f.constructor, h, f.arg)
      [] f.fn = "duplicatePromise" -> duplicatePromise(h, f.arg)
      [] f.fn = "duplicateArrayBuffer" -> duplicateArrayBuffer(h, f.arg)
      [] f.fn = "duplicateDataView" -> duplicateDataView(h, f.arg)

\* the container a composite strategy allocates on entry
Container(h, s, v) ==
    CASE s.fn = "duplicateObject" -> NewObject
      [] s.fn = "duplicateArray" -> NewArray
      [] s.fn = "duplicateTypedArray" ->
            NewTypedArray(s.constructor, h[v.n].length)

\* for (const key of Object.keys(obj)): the own keys alone
LoopKeysOwn(h, obj) == OwnKeys(h[obj.n])

\* for (const key in retObj): the keys of the container just made
LoopKeysOfCopy(h, obj) == OwnKeys(Container(h, _duplicate[typeOf(h, obj)], obj))

\* for (const key in obj): the keys the loop of a composite strategy visits
LoopKeys(h, obj) == ForInKeys(h, obj.n)

\* const retObj = obj: the strategy fills the object it was given
FrameAliasing(s, v, ret, keys) ==
    [fn |-> s.fn, constructor |-> s.constructor, arg |-> v,
     ret |-> IF ret = 0 THEN 0 ELSE v.n, keys |-> keys]

\* a strategy invocation: its argument, for a composite strategy the
\* container it fills (ret) and the keys its loop has still to visit, the
\* first of them being the one whose value is being duplicated
Frame(s, v, ret, keys) ==
    [fn |-> s.fn, constructor |-> s.constructor, arg |-> v, ret |-> ret,
     keys |-> keys]

\* _duplicate[typeOf(x)](x): look the strategy up and enter it
Invoke(h, stk, x) ==
    LET tag == typeOf(h, x)
    IN  IF tag \notin DOMAIN _duplicate
        THEN [heap |-> h, stack |-> <<>>, err |-> "TypeError: not a function"]
        ELSE IF Len(stk) >= StackLimit
        THEN [heap |-> h, stack |-> <<>>, err |-> "RangeError"]
        ELSE LET s == _duplicate[tag]
             IN  IF s.fn \in Composite
                 THEN [heap |-> Append(h, Container(h, s, x)),
                       stack |-> Append(stk,
                           Frame(s, x, Len(h) + 1, LoopKeys(h, x))),
                       err |-> "none"]
                 ELSE [heap |-> h,
                       stack |-> Append(stk, Frame(s, x, 0, <<>>)),
                       err |-> "none"]

----------------------------------------------------------------------------
(* Notions the properties are stated in *)

\* the values a composite strategy's loop visits in object a
Members(h, a) == {Get(h, a, k) : k \in Range(ForInKeys(h, a))}

\* the classes the composite strategies are registered for
Recursed(c) == c.type \in {"OBJECT", "ARRAY"} \cup TypedArrayTags

RECURSIVE WalkFrom(_, _)
WalkFrom(h, S) ==
    LET T == S \cup UNION {{v.n : v \in {m \in Members(h, a) : IsRef(m)}} :
                              a \in {b \in S : Recursed(h[b])}}
    IN  IF T = S THEN S ELSE WalkFrom(h, T)

\* the identities duplicate's recursion can come to, starting at value v
Walk(h, v) == IF IsRef(v) THEN WalkFrom(h, {v.n}) ELSE {}

\* every scalar the recursion can come to, starting at value v
WalkScalars(h, v) ==
    (IF IsRef(v) THEN {} ELSE {v})
    \cup UNION {{m \in Members(h, a) : ~IsRef(m)} :
                  a \in {b \in Walk(h, v) : Recursed(h[b])}}

\* v is built only from plain objects, arrays and scalars
PlainBuilt(h, v) ==
    /\ \A a \in Reach(h, v) : h[a].type \in {"OBJECT", "ARRAY"}
    /\ \A x \in WalkScalars(h, v) : x.tag \in IdentityTags

\* an object or array of v is a member, at some depth, of itself
Cyclic(h, v) ==
    \E a \in {b \in Walk(h, v) : Recursed(h[b])} :
        \E m \in Members(h, a) : IsRef(m) /\ a \in Walk(h, m)

RECURSIVE NestingDepth(_, _, _)
\* the number of values on the longest chain of members from v (a scalar or
\* an empty container 1), cut at fuel
NestingDepth(h, v, fuel) ==
    IF fuel = 0 \/ ~IsRef(v) \/ ~Recursed(h[v.n]) \/ Members(h, v.n) = {}
    THEN 1
    ELSE LET ds == {NestingDepth(h, m, fuel - 1) : m \in Members(h, v.n)}
         IN  1 + CHOOSE d \in ds : \A e \in ds : e <= d

\* the promise whose settlement promise a follows
RECURSIVE Settles(_, _)
Settles(h, a) == IF h[a].link = 0 THEN a ELSE Settles(h, h[a].link)

RECURSIVE DeepEqualTo(_, _, _, _)
\* structural equality of two values: scalars and identical objects are
\* equal; two objects are equal when of one class and equal in what the
\* class exposes, members compared in turn (to depth fuel)
DeepEqualTo(h, v, w, fuel) ==
    IF v = w THEN TRUE
    ELSE IF ~IsRef(v) \/ ~IsRef(w) \/ fuel = 0 THEN FALSE
    ELSE LET c == h[v.n]
             d == h[w.n]
             members ==
                /\ Range(ForInKeys(h, v.n)) = Range(ForInKeys(h, w.n))
                /\ \A k \in Range(ForInKeys(h, v.n)) :
                      DeepEqualTo(h, Get(h, v.n, k), Get(h, w.n, k), fuel - 1)
         IN  /\ c.type = d.type
             /\ CASE c.type = "OBJECT" -> members
                  [] c.type = "ARRAY" \/ c.type \in TypedArrayTags ->
                        c.length = d.length /\ members
                  [] c.type = "ERROR" ->
                        c.message = d.message /\ c.name = d.name /\ members
                  [] c.type \in {"MAP", "SET"} ->
                        /\ Len(c.entries) = Len(d.entries)
                        /\ \A i \in 1..Len(c.entries) : \A j \in {1, 2} :
                              DeepEqualTo(h, c.entries[i][j], d.entries[i][j],
                                          fuel - 1)
                  [] c.type = "REGEXP" ->
                        c.source = d.source /\ c.flags = d.flags
                  [] c.type = "DATE" -> c.time = d.time
                  [] c.type \in FunctionTags ->
                        c.source = d.source /\ c.scope = d.scope
                  [] c.type = "PROMISE" -> Settles(h, v.n) = Settles(h, w.n)
                  [] c.type = "ARRAYBUFFER" -> c.byteLength = d.byteLength
                  [] c.type = "DATAVIEW" ->
                        /\ c.byteOffset = d.byteOffset
                        /\ c.byteLength = d.byteLength
                        /\ DeepEqualTo(h, Ref(c.buffer), Ref(d.buffer), fuel - 1)
                  [] OTHER -> FALSE

DeepEqual(h, v, w) == DeepEqualTo(h, v, w, Len(h))

\* the finished calls, and those that returned
Calls == 1..Len(results)
ReturnedCalls == {i \in Calls : results[i].outcome = "returned"}

----------------------------------------------------------------------------
(* The inputs: heaps of three objects.  Object 1 is a plain object or an   *)
(* array, object 2 an object of any class, object 3 a prototype, a buffer  *)
(* or a member; the caller passes a scalar, object 1 or object 2.          *)

\* a value whose tag the dispatch table has no key for
Unsupported == Val("BIGINT", 1)

PropKeys == {"0", "1", "a"}

\* the property lists of at most two properties with keys K and values V
PropLists(K, V) ==
    {<<>>}
    \cup {<<Prop(k, v)>> : k \in K, v \in V}
    \cup {<<Prop(k[1], v[1]), Prop(k[2], v[2])>> :
            k \in {kk \in K \X K : kk[1] # kk[2]}, v \in V \X V}

\* the least length an array with these properties has
MinLength(props) ==
    LET idx == {KeyNum(props[i].key) :
                  i \in {j \in 1..Len(props) : IsIndex(props[j].key)}}
    IN  IF idx = {} THEN 0 ELSE 1 + CHOOSE m \in idx : \A n \in idx : n <= m

PlainObjects(K, V, P) ==
    {[type |-> "OBJECT", props |-> p, proto |-> q] : p \in PropLists(K, V), q \in P}

\* arrays, without and with one trailing hole
Arrays(K, V) ==
    {[type |-> "ARRAY", props |-> p, length |-> MinLength(p) + hole] :
        p \in PropLists(K, V), hole \in {0, 1}}

\* the properties of object 1: scalars under every choice and order of keys,
\* or object 2 as a member, alone, after a scalar, or twice
Props1 ==
    PropLists(PropKeys, {Num(1)})
    \cup {<<Prop("a", Ref(2))>>, <<Prop("0", Ref(2))>>,
          <<Prop("a", Num(1)), Prop("0", Ref(2))>>,
          <<Prop("1", Ref(2)), Prop("a", Ref(2))>>}

Object1Shapes ==
    {[type |-> "OBJECT", props |-> p, proto |-> q] : p \in Props1, q \in {0, 3}}
    \cup {[type |-> "ARRAY", props |-> p, length |-> MinLength(p) + hole] :
            p \in Props1, hole \in {0, 1}}

MemberVals == {Num(1), Unsupported, Ref(1), Ref(2), Ref(3)}

Object2Shapes ==
    PlainObjects({"a"}, MemberVals, {0})
    \cup Arrays({"0"}, MemberVals)
    \cup {[type |-> t, entries |-> e] :
            t \in {"MAP", "WEAKMAP"},
            e \in {<<>>, <<<<Ref(3), Num(1)>>>>, <<<<Num(1), Ref(3)>>>>}}
    \cup {[type |-> t, entries |-> e] :
            t \in {"SET", "WEAKSET"}, e \in {<<>>, <<<<Ref(3), Ref(3)>>>>}}
    \cup {[type |-> "ERROR", message |-> "boom", name |-> n, props |-> p] :
            n \in {"Error", "MyError"}, p \in {<<>>, <<Prop("a", Num(1))>>}}
    \cup {[type |-> "REGEXP", source |-> "ab+", flags |-> "g", lastIndex |-> i] :
            i \in {0, 1}}
    \cup {[type |-> "DATE", time |-> 1]}
    \cup {[type |-> t, source |-> "expression", scope |-> 0] : t \in FunctionTags}
    \cup {[type |-> "FUNCTION", source |-> "expression", scope |-> 1]}
    \cup {[type |-> "FUNCTION", source |-> src, scope |-> 0] :
            src \in {"method", "native"}}
    \cup {[type |-> "PROMISE", link |-> 0]}
    \cup {[type |-> "ARRAYBUFFER", byteLength |-> n] : n \in {0, 2}}
    \cup {[type |-> "DATAVIEW", buffer |-> 3, byteOffset |-> 0, byteLength |-> 1]}
    \cup {[type |-> "UINT8ARRAY", length |-> 1, props |-> <<Prop("0", Num(5))>> \o p] :
            p \in {<<>>, <<Prop("a", Ref(3))>>, <<Prop("a", Unsupported)>>}}
    \cup {[type |-> "FLOAT64ARRAY", length |-> 0, props |-> <<>>]}

Object3Shapes ==
    {[type |-> "OBJECT", props |-> p, proto |-> 0] :
        p \in {<<>>, <<Prop("0", Num(1))>>, <<Prop("a", Num(1))>>,
               <<Prop("a", Unsupported)>>, <<Prop("a", Ref(3))>>}}
    \cup {[type |-> "ARRAYBUFFER", byteLength |-> 1]}

\* an object nothing refers to
Spare == [type |-> "OBJECT", props |-> <<>>, proto |-> 0]

\* the identities an object names must be objects of the class it needs
WellFormed(h) ==
    \A a \in 1..Len(h) :
        /\ Proto(h[a]) # 0 => h[Proto(h[a])].type = "OBJECT"
        /\ h[a].type = "DATAVIEW" =>
              /\ h[h[a].buffer].type = "ARRAYBUFFER"
              /\ h[a].byteOffset + h[a].byteLength <= h[h[a].buffer].byteLength

ScalarInputs == {Val(t, 1) : t \in IdentityTags \cup {"BIGINT"}}

Init ==
    /\ \E o1 \in Object1Shapes \cup {Spare}, o2 \in Object2Shapes \cup {Spare},
          o3 \in Object3Shapes \cup {Spare}, x \in ScalarInputs \cup {Ref(1), Ref(2)} :
          /\ heap = <<o1, o2, o3>>
          /\ input = x
          /\ WellFormed(heap)
          \* no object that the input does not reach, other than as Spare
          /\ \A a \in 1..3 : a \notin Reach(heap, x) => heap[a] = Spare
          /\ x = Ref(1) => o1 \in Object1Shapes
          /\ x = Ref(2) => o2 \in Object2Shapes
    /\ stack = <<>>
    /\ results = <<>>
    /\ writes = 0
    /\ before = [heap |-> heap, writes |-> 0]
    /\ shape = [plain |-> PlainBuilt(heap, input),
                cyclic |-> Cyclic(heap, input),
                depth |-> NestingDepth(heap, input, Len(heap))]

----------------------------------------------------------------------------
(* The caller and the steps of a call *)

Outcome(arg, outcome, v, e) ==
    [arg |-> arg, outcome |-> outcome, val |-> v, err |-> e]

\* what the caller may pass: its input, or the copy the first call returned
CallArgs ==
    {input} \cup (IF results # <<>> /\ results[1].outcome = "returned"
                  THEN {results[1].val} ELSE {})

\* an error leaves every active invocation and reaches the caller
Abort(h, e) ==
    /\ heap' = h
    /\ stack' = <<>>
    /\ results' = Append(results, Outcome(stack[1].arg, "threw", Undefined, e))

\* a strategy returns v with the callers stk left: to the loop that called
\* it, which assigns v under the key it is at, or to the caller of duplicate
Deliver(h, stk, v) ==
    IF stk = <<>>
    THEN /\ heap' = h
         /\ stack' = <<>>
         /\ results' = Append(results, Outcome(stack[1].arg, "returned", v, "none"))
    ELSE LET p == stk[Len(stk)]
         IN  /\ heap' = [h EXCEPT ![p.ret] = Assign(@, Head(p.keys), v)]
             /\ stack' = [stk EXCEPT ![Len(stk)].keys = Tail(@)]
             /\ UNCHANGED results

\* duplicate(elem)
duplicate ==
    /\ stack = <<>>
    /\ Len(results) < MaxCalls
    /\ \E elem \in CallArgs :
          LET r == Invoke(heap, <<>>, elem)
          IN  /\ heap' = r.heap
              /\ stack' = r.stack
              /\ results' = IF r.err = "none" THEN results
                            ELSE Append(results,
                                        Outcome(elem, "threw", Undefined, r.err))
    /\ before' = [heap |-> heap, writes |-> writes]
    /\ UNCHANGED <<input, writes, shape>>

\* one turn of a composite strategy's loop, up to the call it makes
Loop ==
    /\ stack # <<>>
    /\ LET f == stack[Len(stack)]
       IN  /\ f.fn \in Composite
           /\ f.keys # <<>>
           /\ LET r == Invoke(heap, stack, Get(heap, f.arg.n, Head(f.keys)))
              IN  IF r.err = "none"
                  THEN heap' = r.heap /\ stack' = r.stack /\ UNCHANGED results
                  ELSE Abort(r.heap, r.err)
    /\ UNCHANGED <<input, writes, before, shape>>

\* a strategy that does not recurse runs and returns or throws
Leaf ==
    /\ stack # <<>>
    /\ LET f == stack[Len(stack)]
           r == RunLeaf(heap, f)
       IN  /\ f.fn \notin Composite
           /\ IF r.err = "none"
              THEN Deliver(r.heap, SubSeq(stack, 1, Len(stack) - 1), r.val)
              ELSE Abort(r.heap, r.err)
    /\ UNCHANGED <<input, writes, before, shape>>

\* return retObj / retArr / newTypedArr, the loop done
Return ==
    /\ stack # <<>>
    /\ LET f == stack[Len(stack)]
       IN  /\ f.fn \in Composite
           /\ f.keys = <<>>
           /\ Deliver(heap, SubSeq(stack, 1, Len(stack) - 1), Ref(f.ret))
    /\ UNCHANGED <<input, writes, before, shape>>

\* the index or key the caller writes to
WriteKey(c) == IF c.type = "ARRAY" THEN "1" ELSE "a"
WriteVal == Num(9)

\* the caller writes to a container it reaches from the copy: a key or an
\* index of an object or array, an entry added to or deleted from a Map or Set
Write ==
    /\ stack = <<>>
    /\ results # <<>>
    /\ results[1].outcome = "returned"
    /\ writes < MaxWrites
    /\ \E a \in Reach(heap, results[1].val) :
          \/ /\ heap[a].type \in {"OBJECT", "ARRAY"}
             /\ heap' = [heap EXCEPT ![a] = Assign(@, WriteKey(@), WriteVal)]
          \/ /\ heap[a].type \in {"MAP", "SET"}
             /\ heap' = [heap EXCEPT ![a].entries = Append(@, <<WriteVal, WriteVal>>)]
          \/ /\ heap[a].type \in {"MAP", "SET"}
             /\ heap[a].entries # <<>>
             /\ heap' = [heap EXCEPT ![a].entries = Tail(@)]
    /\ writes' = writes + 1
    /\ UNCHANGED <<input, stack, results, before, shape>>

Next == duplicate \/ Loop \/ Leaf \/ Return \/ Write

Spec == Init /\ [][Next]_vars

\* the calls alone, the caller writing nothing
Run == duplicate \/ Loop \/ Leaf \/ Return

\* a call in progress runs on: the engine is synchronous and single-threaded
FairSpec == Init /\ [][Run]_vars /\ WF_vars(Loop \/ Leaf \/ Return)

----------------------------------------------------------------------------
(* The claims *)

\* C1: for an input built only from plain objects, arrays and scalars, no
\* object reachable from the returned copy is an object reachable from the
\* argument, and the objects reachable from the input stay as they were
\* when duplicate was called, also after the caller writes to the copy.
C1_IndependentCopy ==
    shape.plain =>
        /\ \A i \in ReturnedCalls :
              results[i].arg = input =>
                 Reach(heap, results[i].val) \cap Reach(heap, input) = {}
        /\ \A a \in Reach(before.heap, input) : heap[a] = before.heap[a]

\* C1's case: a nested plain input was copied and the caller has written to
\* a nested container of the copy
C1_Witness ==
    /\ Len(results) = 1
    /\ 1 \in ReturnedCalls
    /\ writes = 1
    /\ shape.plain
    /\ Cardinality(Reach(heap, input)) >= 2
    /\ \E a \in Reach(heap, results[1].val) \ {results[1].val.n} :
          /\ HasKey(heap[a].props, WriteKey(heap[a]))
          /\ PropVal(heap[a].props, WriteKey(heap[a])) = WriteVal

\* C4: a call whose argument is classified with a tag of the identity
\* strategy returns the argument itself and allocates nothing.
C4_IdentityReturnsArgument ==
    \A i \in Calls :
        typeOf(heap, results[i].arg) \in IdentityTags =>
           /\ results[i].outcome = "returned"
           /\ results[i].val = results[i].arg
           /\ (i = Len(results) /\ stack = <<>>) => Len(heap) = Len(before.heap)

\* C4's case: a WASM module handle was passed and the call is over
C4_Witness ==
    /\ input.tag = "WASM"
    /\ Len(results) = 1

\* C5: the copy of a Map or Set passed to duplicate is another object of
\* the same class holding the very entries of the original (the same
\* identities, nothing but the copy allocated), and the original's entries
\* stay the same when entries are added to or deleted from the copy.
C5_ShallowCollections ==
    \A i \in ReturnedCalls :
        LET m == results[i].arg
            r == results[i].val
        IN  (m = input /\ typeOf(heap, m) \in {"MAP", "SET"}) =>
               /\ IsRef(r)
               /\ r.n \notin Reach(heap, m)
               /\ heap[r.n].type = heap[m.n].type
               /\ heap[m.n] = before.heap[m.n]
               /\ writes = 0 => heap[r.n].entries = heap[m.n].entries
               /\ (i = Len(results) /\ stack = <<>>) =>
                     Len(heap) = Len(before.heap) + 1

\* C5's case: a Map holding an object was copied and the caller changed the
\* entries of the copy
C5_Witness ==
    /\ 1 \in ReturnedCalls
    /\ typeOf(heap, input) = "MAP"
    /\ \E a \in Links(heap[input.n]) : heap[a].type = "OBJECT"
    /\ writes = 1
    /\ heap[results[1].val.n].entries # heap[input.n].entries

\* no function and no promise among the objects of v
NoCallable(h, v) ==
    \A a \in Reach(h, v) : h[a].type \notin FunctionTags \cup {"PROMISE"}

\* C8: where x holds no function and no promise and duplicate(x) and
\* duplicate(duplicate(x)) both return, the second result deep-equals the
\* first.
C8_Idempotent ==
    \A i \in ReturnedCalls : \A j \in ReturnedCalls :
        (/\ results[j].arg = results[i].val
         /\ writes = 0
         /\ NoCallable(heap, results[i].arg))
        => DeepEqual(heap, results[j].val, results[i].val)

\* C8's case: the copy of a nested input was copied again
C8_Witness ==
    /\ Len(results) = 2
    /\ ReturnedCalls = {1, 2}
    /\ IsRef(input)
    /\ results[1].arg = input
    /\ results[2].arg = results[1].val
    /\ NoCallable(heap, input)
    /\ Cardinality(Reach(heap, input)) >= 2
    /\ writes = 0

\* C9: while the caller writes nothing, a call leaves every object that
\* existed when it began as it was, whether it returns or throws, and two
\* calls with the same argument end alike: both throw the same error, or
\* both return and the results are deep-equal.
C9_NoSideEffects ==
    /\ writes = before.writes =>
          /\ Len(heap) >= Len(before.heap)
          /\ \A a \in 1..Len(before.heap) : heap[a] = before.heap[a]
    /\ \A i \in Calls : \A j \in Calls :
          (results[i].arg = results[j].arg /\ writes = 0) =>
             /\ results[i].outcome = results[j].outcome
             /\ results[i].err = results[j].err
             /\ DeepEqual(heap, results[i].val, results[j].val)

\* C9's case: a nested input was copied twice, to two different copies
C9_Witness ==
    /\ Len(results) = 2
    /\ ReturnedCalls = {1, 2}
    /\ results[1].arg = input
    /\ results[2].arg = input
    /\ results[1].val # results[2].val
    /\ Cardinality(Reach(heap, input)) >= 2
    /\ writes = 0

\* the tags of the values the recursion can come to, starting at value v
WalkTags(h, v) ==
    {x.tag : x \in WalkScalars(h, v)} \cup {h[a].type : a \in Walk(h, v)}

\* C2: the copy of an array is an array of the same length with the same
\* present indices and keys, and deep-equals its source.
C2_ArrayCopyEqualsSource ==
    \A i \in ReturnedCalls :
        (results[i].arg = input /\ typeOf(heap, input) = "ARRAY" /\ writes = 0)
        => LET src == heap[input.n]
               r == heap[results[i].val.n]
           IN  /\ r.type = "ARRAY"
               /\ r.length = src.length
               /\ Range(OwnKeys(r)) = Range(OwnKeys(src))
               /\ DeepEqual(heap, results[i].val, input)

\* the copy of a member: the scalar itself, or another object of the class
MemberCopied(h, sv, rv) ==
    IF IsRef(sv) THEN IsRef(rv) /\ rv # sv /\ typeOf(h, rv) = typeOf(h, sv)
    ELSE rv = sv

\* the copy of a plain object: a new plain object whose own keys are the
\* keys for-in visits in the source, each holding the copy of the source's
\* value
CopiesKeys(h, src, r) ==
    /\ h[r.n].type = "OBJECT"
    /\ h[r.n].proto = 0
    /\ r.n \notin Reach(h, src)
    /\ Len(OwnKeys(h[r.n])) = Len(ForInKeys(h, src.n))
    /\ Range(OwnKeys(h[r.n])) = Range(ForInKeys(h, src.n))
    /\ \A k \in Range(ForInKeys(h, src.n)) :
          MemberCopied(h, Get(h, src.n, k), PropVal(h[r.n].props, k))

\* the calls that copied the input, a plain object, with nothing written since
ObjectCopies ==
    {i \in ReturnedCalls :
        results[i].arg = input /\ typeOf(heap, input) = "OBJECT" /\ writes = 0}

C6_OnlyUnsupportedFails ==
    \A i \in Calls :
        (results[i].arg = input /\ writes = 0) =>
            IF WalkTags(heap, input) \subseteq DOMAIN _duplicate
            THEN results[i].outcome = "returned"
            ELSE /\ results[i].outcome = "threw"
                 /\ results[i].err = "TypeError: not a function"

\* C7: the copy of an ArrayBuffer is another ArrayBuffer of the source's
\* byte length.
C7_BufferLength ==
    \A i \in ReturnedCalls :
        typeOf(heap, results[i].arg) = "ARRAYBUFFER" =>
            /\ IsRef(results[i].val)
            /\ results[i].val # results[i].arg
            /\ heap[results[i].val.n].type = "ARRAYBUFFER"
            /\ heap[results[i].val.n].byteLength = heap[results[i].arg.n].byteLength

\* the input is built from plain objects, arrays and scalars, without a cycle
PlainAcyclic == shape.plain /\ ~shape.cyclic
\* the input is built from plain objects, arrays and scalars, with a cycle
PlainCyclic == shape.plain /\ shape.cyclic
InputDepth == shape.depth
\* a call with the input as its argument is running
InputCallRunning == stack # <<>> /\ stack[1].arg = input

\* while the input, without a cycle, is copied, no more strategy invocations
\* are active than the input is deep
C10_DepthBound == (InputCallRunning /\ PlainAcyclic) => Len(stack) <= InputDepth

\* C10 as claimed: a call on a plain input without a cycle returns, with no
\* more active invocations than the input is deep; a call on a plain input
\* with a cycle never returns.
C10_AcyclicReturns ==
    /\ C10_DepthBound
    /\ \A i \in Calls :
          results[i].arg = input =>
             /\ PlainAcyclic => results[i].outcome = "returned"
             /\ PlainCyclic => results[i].outcome # "returned"

\* how calls on the plain input end: within the stack's capacity it returns,
\* deeper or with a cycle it ends in stack exhaustion
C10_Outcomes ==
    /\ C10_DepthBound
    /\ \A i \in Calls :
          results[i].arg = input =>
             /\ (PlainAcyclic /\ InputDepth <= StackLimit) =>
                   results[i].outcome = "returned"
             /\ (PlainAcyclic /\ InputDepth > StackLimit) =>
                   results[i].outcome = "threw" /\ results[i].err = "RangeError"
             /\ PlainCyclic =>
                   results[i].outcome = "threw" /\ results[i].err = "RangeError"

\* C10 as amended: a call on a plain input without a cycle that is no deeper
\* than the call stack's capacity ends and returns, with no more active
\* invocations than the input is deep; deeper, or with a cycle, the call
\* never returns: it ends in stack exhaustion.
C10_BoundedRecursion ==
    /\ []C10_Outcomes
    /\ (InputCallRunning /\ shape.plain) ~> (stack = <<>>)

\* C10's case: an input as deep as the stack's capacity was copied
C10_Witness ==
    /\ 1 \in ReturnedCalls
    /\ PlainAcyclic
    /\ InputDepth = StackLimit

====
